---- MODULE Spec2Model ----
(***************************************************************************)
(* The annotation-driven pruning plugin                                    *)
(* (scripts/babel-plugins/babel-plugin-tree-shake-employee-code.js) and    *)
(* the build-mode switch (scripts/babel-transformer.js, metro.config.js).  *)
(*                                                                         *)
(* A file is a table of AST nodes plus the file's comment list.  The       *)
(* plugin instance owns one closure variable, removedImports.  One pass    *)
(* over a file is Program.enter (the seeding traversal), the main          *)
(* traversal (one step per visitor call) and Program.exit.                 *)
(***************************************************************************)
EXTENDS Integers, Sequences, FiniteSets, TLC

VARIABLES
  ast,             \* the file's node table (path.hub.file.ast), mutated in place
  comments,        \* path.hub.file.ast.comments : sequence of [value, line]
  removedImports,  \* the plugin closure's Set, in insertion order
  phase,           \* "Idle" | "Seeding" | "Pruning" | "Reporting"
  queue,           \* nodes the running traversal has still to visit
  report,          \* console.log records emitted by Program.exit in this pass
  input,           \* the node table as it was handed to this pass
  start,           \* removedImports as it was when this pass began
  rerun,           \* this pass runs on the output of the previous pass
  acted,           \* a main-pass handler has already run in this pass
  passes,          \* files this plugin instance has been handed so far
  env,             \* process.env.INCLUDE_EMPLOYEE_CODE
  mode,            \* babel-transformer.js: includeEmployeeCode, once loaded
  babelrc,         \* what the Babel config function returned, once called
  job,             \* the props the transformer is asked to transform
  handed           \* the props handed to babelTransformer.transform

vars == <<ast, comments, removedImports, phase, queue, report, input, start,
          rerun, acted, passes, env, mode, babelrc, job, handed>>

pruneVars == <<ast, comments, removedImports, phase, queue, report, input,
               start, rerun, acted, passes>>
buildVars == <<env, mode, babelrc, job, handed>>

-----------------------------------------------------------------------------
(* Bounds of the model.                                                    *)

MaxStmts == 2        \* top-level statements in a file
MaxComments == 1     \* comments between the statements of a file
MaxFiles == 2        \* files one plugin instance is handed
MaxDecls == 3        \* statements before the component of a scene

-----------------------------------------------------------------------------
(* The protected lists.                                                    *)

CRITICAL_MODULES ==
  {"react", "react-native", "react/jsx-runtime", "react/jsx-dev-runtime"}

CRITICAL_IMPORTS ==
  {"StyleSheet", "View", "Text", "_jsx", "_jsxs", "_jsxDEV", "Fragment",
   "jsx", "jsxs", "createElement"}

Marker == "@employee-code"

(* A comment's text is a sequence of words; String.includes(marker) finds   *)
(* the marker anywhere in it.                                               *)
isEmployeeCodeComment(comment) ==
  \E i \in 1..Len(comment.value) : comment.value[i] = Marker

(* cs is a set of indices into the file's comment list.                     *)
hasEmployeeCodeComment(cs) ==
  \E c \in cs : isEmployeeCodeComment(comments[c])

isCriticalImport(source, importedNames) ==
  \/ source \in CRITICAL_MODULES
  \/ /\ source = "react-native"
     /\ \E i \in 1..Len(importedNames) : importedNames[i] \in CRITICAL_IMPORTS
  \/ \E i \in 1..Len(importedNames) : importedNames[i] \in CRITICAL_IMPORTS

(* A variant whose window is one line longer.                              *)
findCommentLinesWide ==
  UNION { {comments[c].line, comments[c].line + 1, comments[c].line + 2} :
            c \in {d \in 1..Len(comments) : isEmployeeCodeComment(comments[d])} }

(* A variant that leaves out the line after the comment.                   *)
findCommentLinesOnly ==
  UNION { {comments[c].line} :
            c \in {d \in 1..Len(comments) : isEmployeeCodeComment(comments[d])} }

findEmployeeCodeCommentLines ==
  UNION { {comments[c].line, comments[c].line + 1} :
            c \in {d \in 1..Len(comments) : isEmployeeCodeComment(comments[d])} }

-----------------------------------------------------------------------------
(* The node table.  Node 1 is the Program.  A node records its type, the   *)
(* name it carries (identifier name, JSX tag, import source, operator),    *)
(* its parent and the property of the parent it sits in, its children in   *)
(* traversal order, the comments attached to it (indices into the file's   *)
(* comment list), the comments attached to its opening tag, and the line   *)
(* it starts on (0: the node has no loc).                                  *)

Root == 1

ListKeys ==
  {"body", "specifiers", "declarations", "arguments", "properties",
   "attributes", "children"}

Range(s) == {s[i] : i \in 1..Len(s)}

IndexOf(s, x) == CHOOSE i \in 1..Len(s) : s[i] = x

RECURSIVE Attached(_, _)
Attached(t, n) ==
  IF n = Root THEN TRUE
  ELSE /\ t[n].parent # 0
       /\ n \in Range(t[t[n].parent].kids)
       /\ Attached(t, t[n].parent)

Nodes(t) == {n \in 1..Len(t) : Attached(t, n)}

(* node[k] for a property k that holds one node; 0 when it holds none.     *)
Child(t, n, k) ==
  LET S == {c \in Range(t[n].kids) : t[c].key = k}
  IN IF S = {} THEN 0 ELSE CHOOSE c \in S : TRUE

(* node[k] for a property k that holds a list.                             *)
Children(t, n, k) == SelectSeq(t[n].kids, LAMBDA c : t[c].key = k)

(* path.getSibling(path.key + d): 0 when the container holds no such node, *)
(* or when the node sits in a property that is not a list.                 *)
Sibling(t, n, d) ==
  IF t[n].key \notin ListKeys THEN 0
  ELSE LET ks == Children(t, t[n].parent, t[n].key)
           i  == IndexOf(ks, n)
       IN IF (i + d) \in 1..Len(ks) THEN ks[i + d] ELSE 0

(* NodePath.shareCommentsWithSiblings, which path.remove() calls on a node *)
(* of a list before it detaches it: the leading comments go to the         *)
(* previous sibling (as trailing comments), the trailing comments to the   *)
(* next sibling (as leading comments), and to the only neighbour when      *)
(* there is just one.                                                      *)
shareCommentsWithSiblings(t, n) ==
  LET prev == Sibling(t, n, -1)
      next == Sibling(t, n, 1)
      t1 == IF prev = 0 THEN t
            ELSE [t EXCEPT ![prev].trail =
                    @ \cup t[n].lead \cup (IF next = 0 THEN t[n].trail ELSE {})]
  IN IF next = 0 THEN t1
     ELSE [t1 EXCEPT ![next].lead =
             @ \cup t[n].trail \cup (IF prev = 0 THEN t[n].lead ELSE {})]

(* NodePath._remove: the node leaves its parent's property.                *)
Detach(t, n) ==
  [t EXCEPT ![t[n].parent].kids = SelectSeq(@, LAMBDA c : c # n)]

(* parent.replaceWith(child): the child takes the parent's place and       *)
(* inherits its comments.                                                  *)
ReplaceByChild(t, p, c) ==
  LET g == t[p].parent
  IN [t EXCEPT ![g].kids = [i \in 1..Len(@) |-> IF @[i] = p THEN c ELSE @[i]],
               ![p].kids = <<>>,
               ![c].parent = g,
               ![c].key = t[p].key,
               ![c].lead = @ \cup t[p].lead,
               ![c].trail = @ \cup t[p].trail]

(* path.replaceWith(a new leaf node): the new node takes the place of the  *)
(* old one and inherits its comments; it has no loc.                       *)
ReplaceWith(t, n, type, name) ==
  [t EXCEPT ![n].type = type, ![n].name = name, ![n].kids = <<>>,
            ![n].open = {}, ![n].line = 0]

(* What a handler leaves behind: the table, the closure's set, and the     *)
(* paths Babel requeues because their node was replaced.                   *)
Res(t, S, rq) == [t |-> t, set |-> S, rq |-> rq]

(* path.remove(), with Babel's removal hooks: an expression statement goes *)
(* with its expression, an export with its declaration, a binary or        *)
(* logical expression is replaced by its                                   *)
(* other operand; any other node is detached after its comments were       *)
(* shared with its siblings.                                               *)
RECURSIVE remove(_, _, _)
remove(t, n, S) ==
  LET p == t[n].parent
  IN IF \/ t[n].key = "expression" /\ t[p].type = "ExpressionStatement"
        \/ t[n].key = "declaration" /\ t[p].type = "ExportDefaultDeclaration"
       THEN remove(t, p, S)
     ELSE IF t[p].type = "LogicalExpression"
       THEN LET o == Child(t, p, IF t[n].key = "left" THEN "right" ELSE "left")
            IN Res(ReplaceByChild(t, p, o), S, <<o>>)
     ELSE Res(Detach(shareCommentsWithSiblings(t, n), n), S, <<>>)

(* Set.prototype.add on the insertion-ordered set.                         *)
Add(S, name) == IF name \in Range(S) THEN S ELSE Append(S, name)

RECURSIVE AddAll(_, _)
AddAll(S, names) ==
  IF names = <<>> THEN S ELSE AddAll(Add(S, Head(names)), Tail(names))

has(S, name) == name \in Range(S)

(* node.leadingComments / node.trailingComments carry the marker.          *)
hasDirectComment(t, n) ==
  hasEmployeeCodeComment(t[n].lead) \/ hasEmployeeCodeComment(t[n].trail)

-----------------------------------------------------------------------------
(* The decision function and the reference rewriter.                       *)

(* The node types that have a `name` property.  The table keeps a literal's *)
(* value, an operator or a module source in the same column: those are not *)
(* names.                                                                  *)
NamedTypes == {"Identifier", "JSXIdentifier"}

(* node.name: "" stands for undefined, the value of a missing node and of  *)
(* a node whose type has no name.                                          *)
NameOf(t, n) ==
  IF n # 0 /\ t[n].type \in NamedTypes THEN t[n].name ELSE ""

(* node.name as string concatenation writes it: 'styles.' + undefined is   *)
(* 'styles.undefined'.                                                     *)
NameText(t, n) == IF NameOf(t, n) = "" THEN "undefined" ELSE NameOf(t, n)

(* importSpecifiers.map(...).filter(Boolean): every specifier has a local  *)
(* identifier, so the name taken is always the local one.                  *)
importedNames(t, n) ==
  LET specs == Children(t, n, "specifiers")
      names == [i \in 1..Len(specs) |-> NameOf(t, Child(t, specs[i], "local"))]
  IN SelectSeq(names, LAMBDA x : x # "")

NonCritical(names) == SelectSeq(names, LAMBDA x : x \notin CRITICAL_IMPORTS)

(* attr is a JSXAttribute named style whose value is {object.property}.    *)
StyleMember(t, attr) ==
  LET v == Child(t, attr, "value")
      e == IF v = 0 THEN 0 ELSE Child(t, v, "expression")
  IN IF /\ t[attr].type = "JSXAttribute" /\ t[attr].name = "style"
        /\ v # 0 /\ t[v].type = "JSXExpressionContainer"
        /\ e # 0 /\ t[e].type = "MemberExpression"
     THEN e ELSE 0

(* employeeCodeLines = null is the empty set here: it is only consulted    *)
(* for JSX elements, which are never given null.                           *)
NullLines == {}

shouldRemoveNode(t, n, employeeCodeLines, S) ==
  LET node == t[n]
      names == IF node.type = "ImportDeclaration"
               THEN importedNames(t, n) ELSE <<>>
      prev == Sibling(t, n, -1)
      init == Child(t, n, "init")
      id   == Child(t, n, "id")
      left == Child(t, n, "left")
      expr == Child(t, n, "expression")
      eleft == IF expr = 0 THEN 0 ELSE Child(t, expr, "left")
      No  == [res |-> FALSE, set |-> S]
      Yes == [res |-> TRUE, set |-> S]
  IN
  IF hasDirectComment(t, n) THEN
       IF node.type = "ImportDeclaration"
       THEN IF isCriticalImport(node.name, names) THEN No
            ELSE [res |-> TRUE, set |-> AddAll(S, NonCritical(names))]
       ELSE Yes
  ELSE IF /\ node.type = "JSXElement"
          /\ \/ hasEmployeeCodeComment(node.open)
             \/ node.name # "" /\ has(S, node.name)
             \/ node.line # 0 /\ node.line \in employeeCodeLines
       THEN Yes
  ELSE IF /\ node.type = "JSXElement"
          /\ \E a \in Range(Children(t, n, "attributes")) :
               LET e == StyleMember(t, a)
                   o == IF e = 0 THEN 0 ELSE Child(t, e, "object")
                   q == IF e = 0 THEN 0 ELSE Child(t, e, "property")
               IN /\ e # 0
                  /\ o # 0 /\ t[o].type = "Identifier"
                  /\ q # 0 /\ t[q].type = "Identifier"
                  /\ has(S, "styles." \o t[q].name)
       THEN Yes
  ELSE IF /\ node.type = "ImportDeclaration"
          /\ prev # 0 /\ hasDirectComment(t, prev)
       THEN IF isCriticalImport(node.name, names) THEN No
            ELSE [res |-> TRUE, set |-> AddAll(S, NonCritical(names))]
  ELSE IF /\ node.type = "VariableDeclarator"
          /\ init # 0 /\ t[init].type = "Identifier"
          /\ has(S, t[init].name)
       THEN [res |-> TRUE,
             set |-> IF NameOf(t, id) # "" THEN Add(S, NameOf(t, id)) ELSE S]
  ELSE IF /\ node.type = "LogicalExpression" /\ node.name = "&&"
          /\ NameOf(t, left) # "" /\ has(S, NameOf(t, left))
       THEN Yes
  ELSE IF /\ node.type = "JSXExpressionContainer"
          /\ expr # 0 /\ t[expr].type = "LogicalExpression"
          /\ t[expr].name = "&&"
          /\ eleft # 0 /\ t[eleft].type = "Identifier"
          /\ \/ has(S, t[eleft].name)
             \/ t[eleft].name = "IS_EMPLOYEE_MODE"
       THEN Yes
  ELSE No

(* Called on an attached path only (path.removed is false).                *)
replaceWithEmptyIfNeeded(t, n, S) ==
  LET expr == Child(t, n, "expression")
      left == IF expr = 0 THEN 0 ELSE Child(t, expr, "left")
  IN
  IF /\ t[n].type = "JSXExpressionContainer"
     /\ expr # 0 /\ t[expr].type = "LogicalExpression" /\ t[expr].name = "&&"
     /\ NameOf(t, left) = "IS_EMPLOYEE_MODE"
  THEN Res(ReplaceWith(t, n, "JSXExpressionContainer", "null"), S, <<n>>)
  ELSE IF /\ t[n].type = "Identifier" /\ has(S, t[n].name)
          /\ t[n].name \notin CRITICAL_IMPORTS
          /\ t[t[n].parent].type \notin
               {"ImportSpecifier", "ImportDefaultSpecifier"}
  THEN Res(ReplaceWith(t, n, "Identifier", "undefined"), S, <<n>>)
  ELSE Res(t, S, <<>>)

-----------------------------------------------------------------------------
(* The handlers.  Each maps the table and the closure's set to what the    *)
(* handler leaves behind.                                                  *)

Keep(t, S) == Res(t, S, <<>>)

(* decl.id.name of every declarator of a declaration.                      *)
declaredNames(t, n) ==
  LET ds == Children(t, n, "declarations")
      names == [i \in 1..Len(ds) |-> NameOf(t, Child(t, ds[i], "id"))]
  IN SelectSeq(names, LAMBDA x : x # "")

(* Program.enter's VariableDeclaration(varPath).                           *)
seedVariableDeclaration(t, n, S) ==
  IF hasDirectComment(t, n)
  THEN remove(t, n, AddAll(S, NonCritical(declaredNames(t, n))))
  ELSE Keep(t, S)

(* The keys of the annotated entries of a StyleSheet.create table.         *)
annotatedStyleKeys(t, n) ==
  LET callee == Child(t, n, "callee")
      args == Children(t, n, "arguments")
      props == IF args # <<>> /\ t[args[1]].type = "ObjectExpression"
               THEN Children(t, args[1], "properties") ELSE <<>>
      marked == SelectSeq(props, LAMBDA q : hasDirectComment(t, q))
      names == [i \in 1..Len(marked) |-> NameOf(t, Child(t, marked[i], "key"))]
  IN IF /\ callee # 0 /\ t[callee].type = "MemberExpression"
        /\ NameOf(t, Child(t, callee, "object")) = "StyleSheet"
        /\ NameOf(t, Child(t, callee, "property")) = "create"
     THEN SelectSeq(names, LAMBDA x : x # "")
     ELSE <<>>

StyleKeys(names) == [i \in 1..Len(names) |-> "styles." \o names[i]]

(* Program.enter's CallExpression(callPath).                               *)
seedCallExpression(t, n, S) ==
  Keep(t, AddAll(S, StyleKeys(annotatedStyleKeys(t, n))))

ImportDeclaration(t, n, S) ==
  LET names == importedNames(t, n)
      prev == Sibling(t, n, -1)
      hasPrevComment == prev # 0 /\ hasDirectComment(t, prev)
  IN IF t[n].name \in {"react/jsx-runtime", "react/jsx-dev-runtime"}
       THEN Keep(t, S)
     ELSE IF hasDirectComment(t, n) \/ hasPrevComment
       THEN IF isCriticalImport(t[n].name, names) THEN Keep(t, S)
            ELSE remove(t, n, AddAll(S, NonCritical(names)))
     ELSE Keep(t, S)

JSXElement(t, n, S) ==
  LET sr == shouldRemoveNode(t, n, findEmployeeCodeCommentLines, S)
  IN IF sr.res THEN remove(t, n, sr.set)
     ELSE IF \E a \in Range(Children(t, n, "attributes")) :
               LET e == StyleMember(t, a)
               IN /\ e # 0
                  /\ NameOf(t, Child(t, e, "object")) = "styles"
                  /\ has(sr.set,
                         "styles." \o NameText(t, Child(t, e, "property")))
       THEN remove(t, n, sr.set)
     ELSE Keep(t, sr.set)

JSXExpressionContainer(t, n, S) ==
  LET sr == shouldRemoveNode(t, n, NullLines, S)
  IN IF sr.res THEN remove(t, n, sr.set)
     ELSE IF hasDirectComment(t, n)
       THEN replaceWithEmptyIfNeeded(t, n, sr.set)
     ELSE Keep(t, sr.set)

LogicalExpression(t, n, S) ==
  LET left == Child(t, n, "left")
  IN IF /\ hasDirectComment(t, n) /\ t[n].name = "&&"
        /\ left # 0 /\ t[left].type = "Identifier"
        /\ t[left].name = "IS_EMPLOYEE_MODE"
     THEN Res(ReplaceWith(t, n, "BooleanLiteral", "false"), S, <<n>>)
     ELSE Keep(t, S)

FunctionDeclaration(t, n, S) ==
  IF hasDirectComment(t, n) THEN remove(t, n, S) ELSE Keep(t, S)

VariableDeclaration(t, n, S) ==
  IF hasDirectComment(t, n)
  THEN remove(t, n, AddAll(S, declaredNames(t, n)))
  ELSE Keep(t, S)

ExpressionStatement(t, n, S) ==
  IF hasDirectComment(t, n) THEN remove(t, n, S) ELSE Keep(t, S)

ObjectProperty(t, n, S) ==
  LET obj == t[n].parent
      call == t[obj].parent
      callee == IF call = 0 THEN 0 ELSE Child(t, call, "callee")
      key == NameOf(t, Child(t, n, "key"))
      inStyleSheet ==
        /\ t[obj].type = "ObjectExpression"
        /\ call # 0 /\ t[call].type = "CallExpression"
        /\ callee # 0 /\ t[callee].type = "MemberExpression"
        /\ NameOf(t, Child(t, callee, "object")) = "StyleSheet"
  IN IF hasDirectComment(t, n)
     THEN remove(t, n,
                 IF inStyleSheet /\ key # "" THEN Add(S, "styles." \o key) ELSE S)
     ELSE Keep(t, S)

ClassProperty(t, n, S) ==
  IF hasDirectComment(t, n) THEN remove(t, n, S) ELSE Keep(t, S)

Identifier(t, n, S) ==
  IF t[n].name \in CRITICAL_IMPORTS THEN Keep(t, S)
  ELSE IF /\ has(S, t[n].name)
          /\ t[t[n].parent].type \notin
               {"ImportSpecifier", "ImportDefaultSpecifier"}
    THEN replaceWithEmptyIfNeeded(t, n, S)
  ELSE Keep(t, S)

-----------------------------------------------------------------------------
(* The traversal.  Babel visits the nodes in pre-order; a node whose type  *)
(* has no handler is passed through, a detached node is skipped, a         *)
(* replaced node is visited again, a removed node's children are not       *)
(* visited.                                                                *)

SeedVisitors == {"VariableDeclaration", "CallExpression"}

MainVisitors ==
  {"ImportDeclaration", "JSXElement", "JSXExpressionContainer",
   "LogicalExpression", "FunctionDeclaration", "VariableDeclaration",
   "ExpressionStatement", "ObjectProperty", "ClassProperty", "Identifier"}

RECURSIVE Advance(_, _, _)
Advance(t, q, V) ==
  IF q = <<>> THEN q
  ELSE IF ~Attached(t, Head(q)) THEN Advance(t, Tail(q), V)
  ELSE IF t[Head(q)].type \in V THEN q
  ELSE Advance(t, t[Head(q)].kids \o Tail(q), V)

(* The queue after the handler of its head has left r behind.              *)
After(r, q, V) ==
  LET n == Head(q)
      below == IF Attached(r.t, n) /\ n \notin Range(r.rq)
               THEN r.t[n].kids ELSE <<>>
  IN Advance(r.t, r.rq \o below \o Tail(q), V)

RECURSIVE Join(_)
Join(names) ==
  IF names = <<>> THEN ""
  ELSE IF Len(names) = 1 THEN names[1]
  ELSE names[1] \o ", " \o Join(Tail(names))

-----------------------------------------------------------------------------
(* The files handed to the plugin.  A file is a sequence of top-level      *)
(* statements with comments between them, as the parser attaches them: a   *)
(* comment between two statements is a trailing comment of the first and   *)
(* a leading comment of the second.  In a fragment, parent 0 is the        *)
(* Program, and node and comment numbers are relative to the fragment.     *)

N(type, name, parent, key, kids) ==
  [type |-> type, name |-> name, parent |-> parent, key |-> key,
   kids |-> kids, lead |-> {}, trail |-> {}, open |-> {}, line |-> 0]

Annotation == <<"@employee-code">>
Note == <<"note">>

Frag(nodes, cs) == [nodes |-> nodes, comments |-> cs]

(* import L from 'source'                                                  *)
ImportDefault(source, local) ==
  Frag(<<N("ImportDeclaration", source, 0, "body", <<2>>),
         N("ImportDefaultSpecifier", "", 1, "specifiers", <<3>>),
         N("Identifier", local, 2, "local", <<>>)>>, <<>>)

(* import { I as L } from 'source'                                         *)
ImportNamed(source, imported, local) ==
  Frag(<<N("ImportDeclaration", source, 0, "body", <<2>>),
         N("ImportSpecifier", "", 1, "specifiers", <<3, 4>>),
         N("Identifier", imported, 2, "imported", <<>>),
         N("Identifier", local, 2, "local", <<>>)>>, <<>>)

(* const X = 1;                                                            *)
VarLiteral(x) ==
  Frag(<<N("VariableDeclaration", "const", 0, "body", <<2>>),
         N("VariableDeclarator", "", 1, "declarations", <<3, 4>>),
         N("Identifier", x, 2, "id", <<>>),
         N("NumericLiteral", "1", 2, "init", <<>>)>>, <<>>)

(* const T = StyleSheet.create({ [comment] e: {} });                       *)
StyleTable(table, entry, c) ==
  Frag(<<N("VariableDeclaration", "const", 0, "body", <<2>>),
         N("VariableDeclarator", "", 1, "declarations", <<3, 4>>),
         N("Identifier", table, 2, "id", <<>>),
         N("CallExpression", "", 2, "init", <<5, 8>>),
         N("MemberExpression", "", 4, "callee", <<6, 7>>),
         N("Identifier", "StyleSheet", 5, "object", <<>>),
         N("Identifier", "create", 5, "property", <<>>),
         N("ObjectExpression", "", 4, "arguments", <<9>>),
         [N("ObjectProperty", "", 8, "properties", <<10, 11>>)
            EXCEPT !.lead = IF c = <<>> THEN {} ELSE {1}],
         N("Identifier", entry, 9, "key", <<>>),
         N("ObjectExpression", "", 9, "value", <<>>)>>,
       IF c = <<>> THEN <<>> ELSE <<[value |-> c, line |-> 1]>>)

(* function F() {}                                                         *)
Function(f) ==
  Frag(<<N("FunctionDeclaration", "", 0, "body", <<2>>),
         N("Identifier", f, 1, "id", <<>>)>>, <<>>)

(* FLAG && use(X);                                                         *)
UseGuard(flag, x) ==
  Frag(<<N("ExpressionStatement", "", 0, "body", <<2>>),
         N("LogicalExpression", "&&", 1, "expression", <<3, 4>>),
         N("Identifier", flag, 2, "left", <<>>),
         N("CallExpression", "", 2, "right", <<5, 6>>),
         N("Identifier", "use", 4, "callee", <<>>),
         N("Identifier", x, 4, "arguments", <<>>)>>, <<>>)

(* class Panel { [comment] X = 1; }                                        *)
Class(x, c) ==
  Frag(<<N("ClassDeclaration", "", 0, "body", <<2, 3>>),
         N("Identifier", "Panel", 1, "id", <<>>),
         [N("ClassProperty", "", 1, "body", <<4, 5>>)
            EXCEPT !.lead = IF c = <<>> THEN {} ELSE {1}],
         N("Identifier", x, 3, "key", <<>>),
         N("NumericLiteral", "1", 3, "value", <<>>)>>,
       IF c = <<>> THEN <<>> ELSE <<[value |-> c, line |-> 1]>>)

(* export default function App() { return (                                *)
(*   <View>                           line 1                               *)
(*     <Tag />                        line 2                               *)
(*     {FLAG && <Tag />}              line 3                               *)
(*     <Text style={T.e} />           line 4                               *)
(*   </View> ); }                                                          *)
Render(tag, flag, table, entry) ==
  Frag(<<N("ExportDefaultDeclaration", "", 0, "body", <<2>>),
         N("FunctionDeclaration", "", 1, "declaration", <<3, 4>>),
         N("Identifier", "App", 2, "id", <<>>),
         [N("JSXElement", "View", 2, "argument", <<5, 6, 10>>) EXCEPT !.line = 1],
         [N("JSXElement", tag, 4, "children", <<>>) EXCEPT !.line = 2],
         [N("JSXExpressionContainer", "", 4, "children", <<7>>) EXCEPT !.line = 3],
         [N("LogicalExpression", "&&", 6, "expression", <<8, 9>>) EXCEPT !.line = 3],
         [N("Identifier", flag, 7, "left", <<>>) EXCEPT !.line = 3],
         [N("JSXElement", tag, 7, "right", <<>>) EXCEPT !.line = 3],
         [N("JSXElement", "Text", 4, "children", <<11>>) EXCEPT !.line = 4],
         [N("JSXAttribute", "style", 10, "attributes", <<12>>) EXCEPT !.line = 4],
         [N("JSXExpressionContainer", "", 11, "value", <<13>>) EXCEPT !.line = 4],
         [N("MemberExpression", "", 12, "expression", <<14, 15>>) EXCEPT !.line = 4],
         [N("Identifier", table, 13, "object", <<>>) EXCEPT !.line = 4],
         [N("Identifier", entry, 13, "property", <<>>) EXCEPT !.line = 4]>>,
       <<>>)

(* The statements a file is made of.                                       *)
Vocabulary ==
  { ImportDefault("./Tools", "Tools"),
    ImportNamed("react-native", "Tools", "Tools"),
    VarLiteral("Tools"),
    VarLiteral("View"),
    StyleTable("styles", "debug", Annotation),
    Function("Tools"),
    UseGuard("IS_EMPLOYEE_MODE", "Tools"),
    Class("Tools", Annotation),
    Render("Tools", "IS_EMPLOYEE_MODE", "styles", "debug") }

CommentTexts == {Annotation, Note}

(* Statement i starts on line 10 * i; a comment between statements sits    *)
(* on the line before the statement that follows it.                       *)
LineOf(i) == 10 * i

Shifted(frag, dn, dc, base) ==
  [i \in 1..Len(frag.nodes) |->
     LET x == frag.nodes[i]
     IN [x EXCEPT !.parent = IF @ = 0 THEN Root ELSE @ + dn,
                  !.kids = [j \in 1..Len(@) |-> @[j] + dn],
                  !.lead = {c + dc : c \in @},
                  !.trail = {c + dc : c \in @},
                  !.open = {c + dc : c \in @},
                  !.line = base + @]]

RECURSIVE Assemble(_, _, _)
Assemble(acc, body, i) ==
  IF i > Len(body) THEN acc
  ELSE LET dn == Len(acc.nodes)
           dc == Len(acc.comments)
           nodes == acc.nodes \o Shifted(body[i], dn, dc, LineOf(i))
           cs == acc.comments \o
                   [j \in 1..Len(body[i].comments) |->
                      [body[i].comments[j] EXCEPT !.line = LineOf(i) + @]]
       IN Assemble([nodes |-> [nodes EXCEPT ![Root].kids = Append(@, dn + 1)],
                    comments |-> cs], body, i + 1)

(* between[g] is the text of the comment after statement g (before the     *)
(* first statement when g = 0), or <<>> when there is none.                *)
GapsOf(between) == {g \in DOMAIN between : between[g] # <<>>}

CommentNo(between, g) == Cardinality({h \in GapsOf(between) : h <= g})

RECURSIVE SeqOfGaps(_, _)
SeqOfGaps(between, gs) ==
  IF gs = {} THEN <<>>
  ELSE LET g == CHOOSE h \in gs : \A k \in gs : h <= k
       IN <<[value |-> between[g], line |-> LineOf(g + 1) - 1]>>
            \o SeqOfGaps(between, gs \ {g})

File(body, between) ==
  LET gaps == GapsOf(between)
      f == Assemble([nodes |-> <<N("Program", "", 0, "", <<>>)>>,
                     comments |-> SeqOfGaps(between, gaps)], body, 1)
      stmt == f.nodes[Root].kids
      after(i) == IF (i \in gaps) THEN {CommentNo(between, i)} ELSE {}
  IN [ast |-> [n \in 1..Len(f.nodes) |->
                 IF n \in Range(stmt)
                 THEN LET i == IndexOf(stmt, n)
                      IN [f.nodes[n] EXCEPT !.lead = @ \cup after(i - 1),
                                            !.trail = @ \cup after(i)]
                 ELSE f.nodes[n]],
      comments |-> f.comments]

(* The names a statement binds in the module scope.                        *)
BoundNames(frag) ==
  {frag.nodes[i].name : i \in
     {j \in 1..Len(frag.nodes) :
        /\ frag.nodes[j].type = "Identifier"
        /\ \/ frag.nodes[j].key = "local"
           \/ /\ frag.nodes[j].key = "id"
              /\ frag.nodes[frag.nodes[j].parent].type \in
                   {"VariableDeclarator", "FunctionDeclaration",
                    "ClassDeclaration"}
              /\ LET p == frag.nodes[j].parent
                 IN \/ frag.nodes[p].parent = 0
                    \/ frag.nodes[frag.nodes[p].parent].parent = 0}}

(* The parser rejects a module that binds a name twice.                    *)
Parses(body) ==
  \A i, j \in 1..Len(body) :
    i < j => BoundNames(body[i]) \cap BoundNames(body[j]) = {}

Bodies ==
  {body \in UNION {[1..n -> Vocabulary] : n \in 1..MaxStmts} : Parses(body)}

Betweens(n) ==
  {b \in [0..n -> CommentTexts \cup {<<>>}] :
     Cardinality(GapsOf(b)) <= MaxComments}

Files == UNION {{File(body, b) : b \in Betweens(Len(body))} : body \in Bodies}

(* const X = Y;                                                            *)
VarAlias(x, y) ==
  Frag(<<N("VariableDeclaration", "const", 0, "body", <<2>>),
         N("VariableDeclarator", "", 1, "declarations", <<3, 4>>),
         N("Identifier", x, 2, "id", <<>>),
         N("Identifier", y, 2, "init", <<>>)>>, <<>>)

(* Where a component carries an annotation of its own: nowhere, on the     *)
(* opening tag of <Text>, on the <Text> element, on the logical expression *)
(* of the guard, or on the container of the guard.                         *)
Marks == {"none", "opening", "element", "logical", "container"}

(* export default function App() { return (                                *)
(*   <View>                           line 1                               *)
(*     {/* text */}                   line 2, or line 3 before <Alias />   *)
(*     <Alias />                      line 3                               *)
(*     <Text />                       line 4                               *)
(*     <Row style={T.debug} />        line 5                               *)
(*     {FLAG && <Secret>              line 6                               *)
(*        text                        line 7                               *)
(*        <Inner /> </Secret>}        line 8                               *)
(*   </View> ); }                                                          *)
(* <Inner /> is nested as the <Text> elements of the section of            *)
(* TestTreeShaking.tsx are: it starts two lines below its parent and has   *)
(* no annotation, tag or style of its own that could have it removed.      *)
(* The comment of the first container is the innerComments of its empty    *)
(* expression: it is in the file's comment list and on no node a handler   *)
(* looks at.  The annotation of a mark is comment 2 of the fragment.       *)
Panel(text, at, mark, flag, table) ==
  Frag(<<N("ExportDefaultDeclaration", "", 0, "body", <<2>>),
         N("FunctionDeclaration", "", 1, "declaration", <<3, 4>>),
         N("Identifier", "App", 2, "id", <<>>),
         [N("JSXElement", "View", 2, "argument", <<5, 7, 8, 9, 10>>)
            EXCEPT !.line = 1],
         [N("JSXExpressionContainer", "", 4, "children", <<6>>)
            EXCEPT !.line = at],
         [N("JSXEmptyExpression", "", 5, "expression", <<>>)
            EXCEPT !.line = at],
         [N("JSXElement", "Alias", 4, "children", <<>>) EXCEPT !.line = 3],
         [N("JSXElement", "Text", 4, "children", <<>>)
            EXCEPT !.line = 4,
                   !.lead = IF mark = "element" THEN {2} ELSE {},
                   !.open = IF mark = "opening" THEN {2} ELSE {}],
         [N("JSXElement", "Row", 4, "children", <<14>>) EXCEPT !.line = 5],
         [N("JSXExpressionContainer", "", 4, "children", <<11>>)
            EXCEPT !.line = 6,
                   !.lead = IF mark = "container" THEN {2} ELSE {}],
         [N("LogicalExpression", "&&", 10, "expression", <<12, 13>>)
            EXCEPT !.line = 6,
                   !.lead = IF mark = "logical" THEN {2} ELSE {}],
         [N("Identifier", flag, 11, "left", <<>>) EXCEPT !.line = 6],
         [N("JSXElement", "Secret", 11, "right", <<19>>) EXCEPT !.line = 6],
         [N("JSXAttribute", "style", 9, "attributes", <<15>>) EXCEPT !.line = 5],
         [N("JSXExpressionContainer", "", 14, "value", <<16>>)
            EXCEPT !.line = 5],
         [N("MemberExpression", "", 15, "expression", <<17, 18>>)
            EXCEPT !.line = 5],
         [N("Identifier", table, 16, "object", <<>>) EXCEPT !.line = 5],
         [N("Identifier", "debug", 16, "property", <<>>) EXCEPT !.line = 5],
         [N("JSXElement", "Inner", 13, "children", <<>>) EXCEPT !.line = 8]>>,
       <<[value |-> text, line |-> at]>> \o
         (IF mark = "none" THEN <<>>
          ELSE <<[value |-> Annotation,
                  line |-> IF mark \in {"opening", "element"} THEN 4 ELSE 6]>>))

(* The statements that come before the component of a scene, in the order  *)
(* they are written in.                                                    *)
SceneDecls ==
  << ImportNamed("react-native", "View", "View"),
     ImportDefault("./Tools", "Tools"),
     VarLiteral("IS_EMPLOYEE_MODE"),
     VarLiteral("SECRET"),
     VarAlias("Alias", "Tools"),
     StyleTable("styles", "debug", Annotation) >>

Panels ==
  {Panel(n[1], n[2], mark, flag, table) :
     n \in {<<Note, 2>>, <<Annotation, 2>>, <<Annotation, 3>>},
     mark \in Marks,
     flag \in {"IS_EMPLOYEE_MODE", "DEBUG"},
     table \in {"styles", "theme"}}

(* The sub-sequence of decls at the positions of set P.                    *)
RECURSIVE Pick(_, _)
Pick(decls, P) ==
  IF P = {} THEN <<>>
  ELSE LET i == CHOOSE j \in P : \A k \in P : j <= k
       IN <<decls[i]>> \o Pick(decls, P \ {i})

SceneBodies ==
  {Append(Pick(SceneDecls, P), panel) :
     P \in {Q \in SUBSET (1..Len(SceneDecls)) : Cardinality(Q) <= MaxDecls},
     panel \in {q \in Panels :
                 /\ q.nodes[12].name = "DEBUG" => q.nodes[11].lead # {}
                 /\ q.nodes[17].name = "theme" =>
                      /\ Len(q.comments) = 1
                      /\ q.nodes[12].name = "IS_EMPLOYEE_MODE"}}

(* Between the statements of a scene stand annotation comments only.       *)
SceneBetweens(n) == {b \in Betweens(n) : \A g \in DOMAIN b : b[g] # Note}

Scenes ==
  UNION {{File(body, b) : b \in SceneBetweens(Len(body))} :
           body \in SceneBodies}

(* import * as L from 'source'                                             *)
ImportNamespace(source, local) ==
  Frag(<<N("ImportDeclaration", source, 0, "body", <<2>>),
         N("ImportNamespaceSpecifier", "", 1, "specifiers", <<3>>),
         N("Identifier", local, 2, "local", <<>>)>>, <<>>)

(* function Scope() { /* @employee-code */ const X = 1; }                  *)
Scoped(x) ==
  Frag(<<N("FunctionDeclaration", "", 0, "body", <<2, 3>>),
         N("Identifier", "Scope", 1, "id", <<>>),
         N("BlockStatement", "", 1, "body", <<4>>),
         [N("VariableDeclaration", "const", 3, "body", <<5>>)
            EXCEPT !.lead = {1}],
         N("VariableDeclarator", "", 4, "declarations", <<6, 7>>),
         N("Identifier", x, 5, "id", <<>>),
         N("NumericLiteral", "1", 5, "init", <<>>)>>,
       <<[value |-> Annotation, line |-> 1]>>)

(* The statements of a module without markup.                              *)
ModuleStmts ==
  { ImportNamespace("./Tools", "Tools"),
    ImportDefault("./Tools", "Tools"),
    ImportNamed("./x", "View", "V"),
    ImportNamed("react-native", "View", "View"),
    Scoped("Tools"),
    Scoped("undefined"),
    UseGuard("IS_EMPLOYEE_MODE", "Tools"),
    UseGuard("IS_EMPLOYEE_MODE", "undefined") }

(* The imports of a file that opens with a run of imports, as              *)
(* TestTreeShaking.tsx does.                                               *)
ChainStmts ==
  { ImportDefault("./Tools", "Tools"),
    ImportDefault("./Panel", "Panel"),
    ImportDefault("./Extra", "Extra"),
    ImportNamed("react-native", "View", "View") }

MaxChain == 3

ImportChains == {body \in [1..MaxChain -> ChainStmts] : Parses(body)}

ModuleBodies ==
  {body \in UNION {[1..n -> ModuleStmts] : n \in 1..MaxStmts} : Parses(body)}
    \cup ImportChains

Modules ==
  UNION {{File(body, b) : b \in Betweens(Len(body))} : body \in ModuleBodies}

-----------------------------------------------------------------------------
(* One plugin instance pruning one file after the other.                   *)

NoFile == <<>>

InitPrune ==
  /\ ast = NoFile
  /\ comments = <<>>
  /\ removedImports = <<>>
  /\ phase = "Idle"
  /\ queue = <<>>
  /\ report = <<>>
  /\ input = NoFile
  /\ start = <<>>
  /\ rerun = FALSE
  /\ acted = FALSE
  /\ passes = 0

(* The plugin factory is called: a new closure, a new Set.                 *)
Instantiate ==
  /\ phase = "Idle"
  /\ passes > 0
  /\ removedImports' = <<>>
  /\ passes' = 0
  /\ UNCHANGED <<ast, comments, phase, queue, report, input, start, rerun,
                 acted, buildVars>>

(* Program.enter, up to the call of path.traverse: the seeding traversal   *)
(* starts on the file Babel hands to the plugin.                           *)
ProgramEnter ==
  /\ phase = "Idle"
  /\ passes < MaxFiles
  /\ passes' = passes + 1
  /\ \E f \in Files :
       /\ ast' = f.ast
       /\ comments' = f.comments
       /\ input' = f.ast
       /\ queue' = Advance(f.ast, f.ast[Root].kids, SeedVisitors)
  /\ phase' = "Seeding"
  /\ start' = removedImports
  /\ report' = <<>>
  /\ rerun' = FALSE
  /\ acted' = FALSE
  /\ UNCHANGED <<removedImports, buildVars>>

(* Program.enter on a module without markup, by a plugin instance that has *)
(* seen no file.                                                           *)
ProgramEnterModule ==
  /\ phase = "Idle"
  /\ passes = 0
  /\ passes' = 1
  /\ \E f \in Modules :
       /\ ast' = f.ast
       /\ comments' = f.comments
       /\ input' = f.ast
       /\ queue' = Advance(f.ast, f.ast[Root].kids, SeedVisitors)
  /\ phase' = "Seeding"
  /\ start' = removedImports
  /\ report' = <<>>
  /\ rerun' = FALSE
  /\ acted' = FALSE
  /\ UNCHANGED <<removedImports, buildVars>>

(* Program.enter on a scene, by a plugin instance that has seen no file.   *)
ProgramEnterScene ==
  /\ phase = "Idle"
  /\ passes = 0
  /\ passes' = 1
  /\ \E f \in Scenes :
       /\ ast' = f.ast
       /\ comments' = f.comments
       /\ input' = f.ast
       /\ queue' = Advance(f.ast, f.ast[Root].kids, SeedVisitors)
  /\ phase' = "Seeding"
  /\ start' = removedImports
  /\ report' = <<>>
  /\ rerun' = FALSE
  /\ acted' = FALSE
  /\ UNCHANGED <<removedImports, buildVars>>

(* A second pass over the tree the pass has just produced, by a plugin     *)
(* instance whose closure is new.                                          *)
ProgramEnterAgain ==
  /\ phase = "Reporting"
  /\ ~rerun
  /\ removedImports' = <<>>
  /\ input' = ast
  /\ queue' = Advance(ast, ast[Root].kids, SeedVisitors)
  /\ phase' = "Seeding"
  /\ start' = <<>>
  /\ report' = <<>>
  /\ rerun' = TRUE
  /\ acted' = FALSE
  /\ passes' = 1
  /\ UNCHANGED <<ast, comments, buildVars>>

Seed(type, r) ==
  /\ phase = "Seeding"
  /\ queue # <<>>
  /\ ast[Head(queue)].type = type
  /\ ast' = r.t
  /\ removedImports' = r.set
  /\ queue' = After(r, queue, SeedVisitors)
  /\ UNCHANGED <<comments, phase, report, input, start, rerun, acted, passes,
                 buildVars>>

SeedVariableDeclaration ==
  Seed("VariableDeclaration",
       seedVariableDeclaration(ast, Head(queue), removedImports))

SeedCallExpression ==
  Seed("CallExpression", seedCallExpression(ast, Head(queue), removedImports))

(* A main traversal that starts while the seeding traversal still has     *)
(* nodes to visit.                                                         *)
SeedDoneEarly ==
  /\ phase = "Seeding"
  /\ phase' = "Pruning"
  /\ queue' = Advance(ast, ast[Root].kids, MainVisitors)
  /\ UNCHANGED <<ast, comments, removedImports, report, input, start, rerun,
                 acted, passes, buildVars>>

(* path.traverse and Program.enter return: the main traversal starts.      *)
SeedDone ==
  /\ phase = "Seeding"
  /\ queue = <<>>
  /\ phase' = "Pruning"
  /\ queue' = Advance(ast, ast[Root].kids, MainVisitors)
  /\ UNCHANGED <<ast, comments, removedImports, report, input, start, rerun,
                 acted, passes, buildVars>>

Visit(type, r) ==
  /\ phase = "Pruning"
  /\ queue # <<>>
  /\ ast[Head(queue)].type = type
  /\ ast' = r.t
  /\ removedImports' = r.set
  /\ queue' = After(r, queue, MainVisitors)
  /\ acted' = TRUE
  /\ UNCHANGED <<comments, phase, report, input, start, rerun, passes,
                 buildVars>>

VisitImportDeclaration ==
  Visit("ImportDeclaration", ImportDeclaration(ast, Head(queue), removedImports))

VisitJSXElement ==
  Visit("JSXElement", JSXElement(ast, Head(queue), removedImports))

VisitJSXExpressionContainer ==
  Visit("JSXExpressionContainer",
        JSXExpressionContainer(ast, Head(queue), removedImports))

VisitLogicalExpression ==
  Visit("LogicalExpression", LogicalExpression(ast, Head(queue), removedImports))

VisitFunctionDeclaration ==
  Visit("FunctionDeclaration",
        FunctionDeclaration(ast, Head(queue), removedImports))

VisitVariableDeclaration ==
  Visit("VariableDeclaration",
        VariableDeclaration(ast, Head(queue), removedImports))

VisitExpressionStatement ==
  Visit("ExpressionStatement",
        ExpressionStatement(ast, Head(queue), removedImports))

VisitObjectProperty ==
  Visit("ObjectProperty", ObjectProperty(ast, Head(queue), removedImports))

VisitClassProperty ==
  Visit("ClassProperty", ClassProperty(ast, Head(queue), removedImports))

VisitIdentifier ==
  Visit("Identifier", Identifier(ast, Head(queue), removedImports))

LogPrefix == "Tree-shaking: Removed employee code components: "

(* Program.exit.                                                           *)
ProgramExit ==
  /\ phase = "Pruning"
  /\ queue = <<>>
  /\ phase' = "Reporting"
  /\ report' = IF Len(removedImports) > 0
               THEN Append(report, [names |-> removedImports,
                                    text |-> LogPrefix \o Join(removedImports)])
               ELSE report
  /\ UNCHANGED <<ast, comments, removedImports, queue, input, start, rerun,
                 acted, passes, buildVars>>

(* Babel hands the tree back; the closure stays.                           *)
Return ==
  /\ phase = "Reporting"
  /\ phase' = "Idle"
  /\ ast' = NoFile
  /\ comments' = <<>>
  /\ input' = NoFile
  /\ start' = <<>>
  /\ report' = <<>>
  /\ rerun' = FALSE
  /\ acted' = FALSE
  /\ UNCHANGED <<removedImports, queue, passes, buildVars>>

-----------------------------------------------------------------------------
(* The build-mode switch: scripts/babel-transformer.js and the Babel       *)
(* config.  A value that may be undefined is a sequence of length 0 or 1;  *)
(* a file name is the sequence of its characters.                          *)

Undefined == <<>>
Defined(v) == <<v>>

treeShakePlugin == "babel-plugin-tree-shake-employee-code"
PluginPath == "./scripts/babel-plugins/babel-plugin-tree-shake-employee-code"

EnvValues ==
  {Undefined, Defined("true"), Defined("false"), Defined("TRUE"),
   Defined("1"), Defined("")}

(* A switch that takes every value but 'false' for employee mode.         *)
includeUnlessFalse == env # Defined("false")

(* process.env.INCLUDE_EMPLOYEE_CODE === 'true', as the transformer reads  *)
(* it when it is loaded.                                                   *)
includeEmployeeCode == env = Defined("true")

(* The same test in the Babel config function.                             *)
configIncludeEmployeeCode == env = Defined("true")

EndsWith(str, suffix) ==
  /\ Len(str) >= Len(suffix)
  /\ SubSeq(str, Len(str) - Len(suffix) + 1, Len(str)) = suffix

(* /\.(tsx|ts|jsx|js)$/.test(filename)                                     *)
Extensions ==
  {<<".", "t", "s", "x">>, <<".", "t", "s">>, <<".", "j", "s", "x">>,
   <<".", "j", "s">>}

IsSourceFile(filename) == \E e \in Extensions : EndsWith(filename, e)

Filenames ==
  {<<"a", ".", "t", "s", "x">>, <<"a", ".", "t", "s">>,
   <<"a", ".", "j", "s", "x">>, <<"a", ".", "j", "s">>,
   <<"a", ".", "j", "s", "o", "n">>, <<"a", ".", "m", "j", "s">>,
   <<"a", ".", "J", "S">>, <<"a", "j", "s">>, <<"a", ".", "j", "s", ".", "m", "a", "p">>}

PluginLists == {Undefined, Defined(<<>>), Defined(<<"other">>)}

Props == [filename : Filenames, options : [plugins : PluginLists, dev : {TRUE}]]

(* props.options.plugins || []                                             *)
OrEmpty(plugins) == IF plugins = Undefined THEN <<>> ELSE plugins[1]

(* transform(props): the props babelTransformer.transform is called with.  *)
transform(props, include) ==
  IF IsSourceFile(props.filename) /\ ~include
  THEN [props EXCEPT !.options.plugins =
          Defined(Append(OrEmpty(props.options.plugins), treeShakePlugin))]
  ELSE props

(* The Babel config function.                                              *)
BabelConfig(include) ==
  [presets |-> <<"babel-preset-expo">>,
   plugins |-> IF ~include THEN <<PluginPath>> ELSE <<>>]

InitBuildIdle ==
  /\ env = Defined("false")
  /\ mode = Undefined
  /\ babelrc = Undefined
  /\ job = Undefined
  /\ handed = Undefined

InitBuild ==
  /\ env \in EnvValues
  /\ mode = Undefined
  /\ babelrc = Undefined
  /\ job = Undefined
  /\ handed = Undefined

(* Metro loads scripts/babel-transformer.js.                               *)
LoadTransformer ==
  /\ mode = Undefined
  /\ mode' = Defined(includeEmployeeCode)
  /\ UNCHANGED <<env, babelrc, job, handed, pruneVars>>

(* Babel calls the config function; api.cache(true) keeps the result.      *)
LoadBabelConfig ==
  /\ babelrc = Undefined
  /\ babelrc' = Defined(BabelConfig(configIncludeEmployeeCode))
  /\ UNCHANGED <<env, mode, job, handed, pruneVars>>

(* Metro asks the transformer for a file.                                  *)
Request ==
  /\ mode # Undefined
  /\ job = Undefined
  /\ \E props \in Props : job' = Defined(props)
  /\ UNCHANGED <<env, mode, babelrc, handed, pruneVars>>

Transform ==
  /\ job # Undefined
  /\ handed = Undefined
  /\ handed' = Defined(transform(job[1], mode[1]))
  /\ UNCHANGED <<env, mode, babelrc, job, pruneVars>>

(* babelTransformer.transform returns.                                     *)
Transformed ==
  /\ handed # Undefined
  /\ job' = Undefined
  /\ handed' = Undefined
  /\ UNCHANGED <<env, mode, babelrc, pruneVars>>

Init == InitPrune /\ InitBuildIdle

Next ==
  \/ Instantiate
  \/ ProgramEnter
  \/ ProgramEnterAgain
  \/ SeedVariableDeclaration
  \/ SeedCallExpression
  \/ SeedDone
  \/ VisitImportDeclaration
  \/ VisitJSXElement
  \/ VisitJSXExpressionContainer
  \/ VisitLogicalExpression
  \/ VisitFunctionDeclaration
  \/ VisitVariableDeclaration
  \/ VisitExpressionStatement
  \/ VisitObjectProperty
  \/ VisitClassProperty
  \/ VisitIdentifier
  \/ ProgramExit
  \/ Return

Spec == Init /\ [][Next]_vars

(* The pass on the scenes: the handlers of the node types that occur in    *)
(* them.                                                                   *)
NextScenes ==
  \/ Instantiate
  \/ ProgramEnterScene
  \/ SeedVariableDeclaration
  \/ SeedCallExpression
  \/ SeedDone
  \/ VisitImportDeclaration
  \/ VisitJSXElement
  \/ VisitJSXExpressionContainer
  \/ VisitLogicalExpression
  \/ VisitFunctionDeclaration
  \/ VisitVariableDeclaration
  \/ VisitObjectProperty
  \/ VisitIdentifier
  \/ ProgramExit
  \/ Return

SpecScenes == Init /\ [][NextScenes]_vars

(* The pass on the modules without markup.                                 *)
NextModules ==
  \/ Instantiate
  \/ ProgramEnterModule
  \/ SeedVariableDeclaration
  \/ SeedCallExpression
  \/ SeedDone
  \/ VisitImportDeclaration
  \/ VisitLogicalExpression
  \/ VisitFunctionDeclaration
  \/ VisitExpressionStatement
  \/ VisitIdentifier
  \/ ProgramExit
  \/ Return

SpecModules == Init /\ [][NextModules]_vars

InitBuildMode == InitPrune /\ InitBuild

NextBuild ==
  \/ LoadTransformer
  \/ LoadBabelConfig
  \/ Request
  \/ Transform
  \/ Transformed

SpecBuild == InitBuildMode /\ [][NextBuild]_vars

-----------------------------------------------------------------------------
(* What the claims speak about.                                            *)

Tracked == Range(removedImports)

Reported == UNION {Range(report[i].names) : i \in 1..Len(report)}

PassEnded == phase = "Reporting"

RECURSIVE Below(_, _)
Below(t, n) ==
  {n} \cup UNION {Below(t, t[n].kids[i]) : i \in 1..Len(t[n].kids)}

(* The node is where it was and its subtree is what it was; comments, which *)
(* Babel moves between siblings, are left out of the comparison.           *)
SameNode(a, b) ==
  /\ a.type = b.type
  /\ a.name = b.name
  /\ a.kids = b.kids
  /\ a.parent = b.parent

Untouched(n) ==
  /\ Attached(ast, n)
  /\ \A d \in Below(input, n) : SameNode(ast[d], input[d])

SameTree == \A n \in 1..Len(input) : SameNode(ast[n], input[n])

AnnotationIn(cs) ==
  \E c \in 1..Len(cs) : \E w \in 1..Len(cs[c].value) : cs[c].value[w] = Marker

AnnotatedOrAfterAnnotated(n) ==
  \/ hasDirectComment(input, n)
  \/ /\ Sibling(input, n, -1) # 0
     /\ hasDirectComment(input, Sibling(input, n, -1))

(* C1: the Removed-Symbol Set and the report never hold a name of the      *)
(* protected identifier list, whichever path added the name.               *)
C1_NoProtectedNameTracked ==
  /\ Tracked \cap CRITICAL_IMPORTS = {}
  /\ Reported \cap CRITICAL_IMPORTS = {}

(* C2: when the pass ends, an annotated import of a protected module is    *)
(* still in the tree, unchanged, and none of the names it binds is in the  *)
(* Removed-Symbol Set or in the report.                                    *)
C2_ProtectedImportKept ==
  PassEnded =>
    \A n \in Nodes(input) :
      ( /\ input[n].type = "ImportDeclaration"
        /\ input[n].name \in CRITICAL_MODULES
        /\ AnnotatedOrAfterAnnotated(n) )
      => /\ Untouched(n)
         /\ Range(importedNames(input, n)) \cap (Tracked \cup Reported) = {}

(* C3: when the pass ends, a directly annotated variable declaration that  *)
(* declares a protected identifier name is still in the tree.              *)
C3_ProtectedDeclarationKept ==
  PassEnded =>
    \A n \in Nodes(input) :
      ( /\ input[n].type = "VariableDeclaration"
        /\ hasDirectComment(input, n)
        /\ Range(declaredNames(input, n)) \cap CRITICAL_IMPORTS # {} )
      => Attached(ast, n)

(* C4: no state survives from one file to the next: the Removed-Symbol Set *)
(* is empty when a file's seeding pass starts, and what the pass reports   *)
(* holds no name tracked before the pass.                                  *)
C4_NoStateAcrossFiles ==
  phase # "Idle" => start = <<>>

(* The names a declaration defines.                                        *)
DefinedNames(t, n) ==
  IF t[n].type = "ImportDeclaration" THEN Range(importedNames(t, n))
  ELSE IF t[n].type = "VariableDeclaration" THEN Range(declaredNames(t, n))
  ELSE IF t[n].type = "FunctionDeclaration"
    THEN {NameOf(t, Child(t, n, "id"))} \ {""}
  ELSE IF t[n].type = "ClassProperty"
    THEN {NameOf(t, Child(t, n, "key"))} \ {""}
  ELSE {}

RemovedNames ==
  UNION {DefinedNames(input, n) :
           n \in {m \in Nodes(input) : ~Attached(ast, m)}}

LeftoverReferences ==
  {n \in Nodes(ast) :
     /\ ast[n].name \in RemovedNames
     /\ \/ ast[n].type = "JSXElement"
        \/ /\ ast[n].type = "Identifier"
           /\ ast[ast[n].parent].type \notin
                {"ImportSpecifier", "ImportDefaultSpecifier",
                 "ImportNamespaceSpecifier"}}

(* C5: when the pass ends, for every declaration the pass removed and      *)
(* every name N it defines, no identifier named N remains outside import   *)
(* binding syntax and no JSX element with tag N remains.                   *)
C5_CascadeComplete == PassEnded => LeftoverReferences = {}

(* C6: a pass that starts from an empty Removed-Symbol Set on a file with  *)
(* no annotation comment removes nothing, rewrites nothing and reports     *)
(* nothing.                                                                *)
C6_OnlyAnnotationTriggers ==
  (PassEnded /\ start = <<>> /\ ~AnnotationIn(comments))
    => SameTree /\ report = <<>> /\ removedImports = <<>>

(* The claim's own reading of "the name ends in .tsx, .ts, .jsx or .js".   *)
Last(str, k) == IF Len(str) < k THEN <<>> ELSE SubSeq(str, Len(str) - k + 1, Len(str))

EndsInSourceExtension(filename) ==
  \/ Last(filename, 3) \in {<<".", "t", "s">>, <<".", "j", "s">>}
  \/ Last(filename, 4) \in {<<".", "t", "s", "x">>, <<".", "j", "s", "x">>}

PluginAddedTo(before, after) ==
  /\ after.filename = before.filename
  /\ after.options.dev = before.options.dev
  /\ after.options.plugins # Undefined
  /\ after.options.plugins[1] =
       (IF before.options.plugins = Undefined THEN <<>>
        ELSE before.options.plugins[1]) \o <<treeShakePlugin>>

(* C7: with INCLUDE_EMPLOYEE_CODE exactly 'true' neither the transformer   *)
(* nor the Babel config adds the pruning plugin and every file is handed   *)
(* on with its options unchanged; with any other value, unset included,    *)
(* the plugin is added for every file whose name ends in .tsx, .ts, .jsx   *)
(* or .js; the transformer and the Babel config agree on the mode.         *)
C7_BuildModeSwitch ==
  /\ handed # Undefined =>
       /\ env = Defined("true") => handed[1] = job[1]
       /\ (env # Defined("true") /\ EndsInSourceExtension(job[1].filename))
            => PluginAddedTo(job[1], handed[1])
  /\ babelrc # Undefined =>
       (env = Defined("true") <=> PluginPath \notin Range(babelrc[1].plugins))
  /\ (mode # Undefined /\ babelrc # Undefined) =>
       (mode[1] <=> PluginPath \notin Range(babelrc[1].plugins))

(* C7 happens: employee mode hands a source file on while the Babel config *)
(* has been read.                                                          *)
C7_Witness ==
  /\ handed # Undefined
  /\ babelrc # Undefined
  /\ env = Defined("true")
  /\ EndsInSourceExtension(job[1].filename)
  /\ job[1].options.plugins = Defined(<<"other">>)

(* C8: a second pass, with a new tracker, over the tree a first pass       *)
(* produced removes nothing, rewrites nothing and tracks nothing.          *)
C8_SecondPassIsNoOp ==
  (rerun /\ PassEnded) => SameTree /\ removedImports = <<>>

PhaseOrder ==
  {<<"Idle", "Seeding">>, <<"Seeding", "Pruning">>, <<"Pruning", "Reporting">>,
   <<"Reporting", "Idle">>}

(* C9: a pass goes Idle, Seeding, Pruning, Reporting, Idle in that order   *)
(* (from Reporting only a pass over the produced tree may start at once);  *)
(* the seeding traversal is exhausted when the main pass starts, no main   *)
(* handler runs outside Pruning, and the report is written only when the   *)
(* main traversal is exhausted.                                            *)
C9_PhaseOrder ==
  [][ /\ phase' # phase =>
           \/ <<phase, phase'>> \in PhaseOrder
           \/ /\ <<phase, phase'>> = <<"Reporting", "Seeding">>
              /\ rerun'
      /\ (phase = "Seeding" /\ phase' = "Pruning") => queue = <<>>
      /\ (acted' /\ ~acted) => (phase = "Pruning" /\ phase' = "Pruning")
      /\ (phase = "Seeding" /\ phase' = "Seeding") => ~acted'
      /\ report' # report =>
           \/ phase = "Pruning" /\ phase' = "Reporting" /\ queue = <<>>
           \/ report' = <<>> ]_vars

(* C9 happens: a pass whose seeding traversal tracked a style entry has    *)
(* run its main handlers and written its report.                           *)
C9_Witness ==
  /\ PassEnded
  /\ acted
  /\ report # <<>>
  /\ "styles.debug" \in Tracked
  /\ ~SameTree

(* C10: when the pass ends there is one summary record if the              *)
(* Removed-Symbol Set is non-empty and none if it is empty, and the record *)
(* lists the names tracked during this pass, once each, in insertion       *)
(* order, and nothing else.                                                *)
C10_ReportListsThisPass ==
  PassEnded =>
    IF removedImports = <<>> THEN report = <<>>
    ELSE /\ Len(report) = 1
         /\ report[1].names =
              SubSeq(removedImports, Len(start) + 1, Len(removedImports))

(* The keys of the annotated entries of the StyleSheet.create tables of    *)
(* the file as it was parsed.                                              *)
AnnotatedEntries ==
  UNION {Range(annotatedStyleKeys(input, c)) :
           c \in {n \in Nodes(input) : input[n].type = "CallExpression"}}

(* The JSX elements of the parsed file whose style attribute is styles.k.  *)
StyledBy(k) ==
  {n \in Nodes(input) :
     /\ input[n].type = "JSXElement"
     /\ \E a \in Range(input[n].kids) :
          LET e == StyleMember(input, a)
          IN /\ e # 0
             /\ NameOf(input, Child(input, e, "object")) = "styles"
             /\ NameOf(input, Child(input, e, "property")) = k}

(* C11: when the pass ends, every JSX element whose style attribute is     *)
(* styles.k, for k an annotated entry of a StyleSheet.create table of the  *)
(* file, is out of the tree, wherever the table stands in the file.        *)
C11_StyleCascade ==
  PassEnded => \A k \in AnnotatedEntries : \A n \in StyledBy(k) :
                 ~Attached(ast, n)

DeclarationKinds ==
  {"VariableDeclaration", "FunctionDeclaration", "ExpressionStatement",
   "ObjectProperty", "ClassProperty"}

(* The node was taken out of its parent, which is still in the tree.       *)
TakenOut(n) ==
  /\ n # Root
  /\ Attached(ast, input[n].parent)
  /\ n \notin Range(ast[input[n].parent].kids)

(* C18: a variable declaration, function declaration, expression           *)
(* statement, object property or class property is taken out of the tree   *)
(* only if one of the comments the parser attached to it holds the marker. *)
C18_DeclarationsNeedOwnAnnotation ==
  \A n \in Nodes(input) :
    input[n].type \in DeclarationKinds /\ TakenOut(n)
      => hasDirectComment(input, n)

(* C20: once the main pass has begun, the Removed-Symbol Set no longer     *)
(* changes until the pass has reported: every name it holds at Reporting   *)
(* was already in it when the first node of the main pass was visited.     *)
C20_TrackerCompleteBeforeUse ==
  [][phase = "Pruning" => removedImports' = removedImports]_vars

(* No comment of a file of the family starts below this line.              *)
LastLine == LineOf(MaxStmts + 2)

(* Line l is the start line of an annotation comment of the file.          *)
AnnotationStartsOn(l) ==
  \E c \in 1..Len(comments) :
    /\ comments[c].line = l
    /\ \E w \in 1..Len(comments[c].value) : comments[c].value[w] = Marker

(* A step of a file's pass changes neither the comment list nor the index. *)
IndexStable ==
  phase \in {"Seeding", "Pruning"} =>
    /\ comments' = comments
    /\ findEmployeeCodeCommentLines' = findEmployeeCodeCommentLines

(* C14: the Annotation Index holds line l exactly when an annotation       *)
(* comment of the file starts on line l or on line l - 1; the comment list *)
(* and the index stay what they are from the start of a file's pass to its *)
(* end, and a step that leaves tree and set alone leaves them alone        *)
(* whether or not it computed the index.                                   *)
C14_AnnotationIndex ==
  /\ [](\A l \in 0..LastLine :
          l \in findEmployeeCodeCommentLines
            <=> AnnotationStartsOn(l) \/ (l > 0 /\ AnnotationStartsOn(l - 1)))
  /\ [](findEmployeeCodeCommentLines \subseteq 0..LastLine)
  /\ [][IndexStable]_vars

(* The pass has ended on a file with a JSX element and an annotation       *)
(* comment, after the JSX handler computed the index.                      *)
C14_Witness ==
  /\ PassEnded
  /\ findEmployeeCodeCommentLines # {}
  /\ \E n \in Nodes(input) : input[n].type = "JSXElement"
  /\ \E n \in Nodes(ast) : ast[n].type = "JSXElement"

(* The main pass is about to run the JSXElement handler on node n.         *)
AtJSXElement(n) ==
  /\ phase = "Pruning"
  /\ queue # <<>>
  /\ Head(queue) = n
  /\ ast[n].type = "JSXElement"

(* Element n of tree t has a style attribute T.e whose composite key,      *)
(* table name and entry name, is in the set.                               *)
StyleKeyTracked(t, n) ==
  \E a \in Range(t[n].kids) :
    LET e == StyleMember(t, a)
        o == IF e = 0 THEN 0 ELSE Child(t, e, "object")
        q == IF e = 0 THEN 0 ELSE Child(t, e, "property")
    IN /\ e # 0
       /\ NameOf(t, o) # "" /\ NameOf(t, q) # ""
       /\ (NameOf(t, o) \o "." \o NameOf(t, q)) \in Tracked

(* Element n of tree t has a style attribute whose entry name, written     *)
(* after `styles.`, is in the set, whatever table the attribute names:     *)
(* the keys the two style checks of the plugin look up.                    *)
StylePrefixTracked(t, n) ==
  \E a \in Range(t[n].kids) :
    LET e == StyleMember(t, a)
        q == IF e = 0 THEN 0 ELSE Child(t, e, "property")
    IN e # 0 /\ ("styles." \o NameText(t, q)) \in Tracked

(* Nothing but the line of element n of tree t can have it removed: it has *)
(* no annotation on itself or its opening tag, its tag is not in the set   *)
(* and its style attribute, if any, names no tracked entry under either    *)
(* reading of the key.                                                     *)
Plain(t, n) ==
  /\ ~hasDirectComment(t, n)
  /\ ~hasEmployeeCodeComment(t[n].open)
  /\ t[n].name \notin Tracked
  /\ ~StyleKeyTracked(t, n)
  /\ ~StylePrefixTracked(t, n)

PlainElement(n) == Plain(ast, n)

LineRule(n) ==
  AtJSXElement(n) /\ PlainElement(n) =>
    (~Attached(ast', n) <=>
       \/ AnnotationStartsOn(ast[n].line)
       \/ AnnotationStartsOn(ast[n].line - 1))

(* C12, as amended: the handler of a JSX element with no annotation on     *)
(* itself or its opening tag, an untracked tag and no tracked style        *)
(* reference, starting on line L, removes it exactly when an annotation    *)
(* comment starts on line L or L - 1; the handler keeps an element two or  *)
(* more lines below an annotation comment unless another annotation        *)
(* comment starts on its line or the line before.  An element that is      *)
(* never handed to its handler, because an ancestor was removed, is not    *)
(* spoken of.                                                              *)
C12_LineHeuristicBoundary ==
  [][\A n \in 1..Len(ast) : LineRule(n)]_vars

(* The plain JSX elements of the parsed file.                              *)
PlainElements ==
  {n \in Nodes(input) : input[n].type = "JSXElement" /\ Plain(input, n)}

(* C12, as stated: when the pass ends, a JSX element with no annotation on *)
(* itself or its opening tag, an untracked tag and no tracked style        *)
(* reference, starting on line L, is out of the tree iff an annotation     *)
(* comment starts on line L or on line L - 1; so an element two or more    *)
(* lines below an annotation comment is still in the tree unless another   *)
(* annotation comment starts on its line or the line before.               *)
C12_LineBoundaryAsStated ==
  PassEnded =>
    \A n \in PlainElements :
      ~Attached(ast, n) <=>
        \/ AnnotationStartsOn(input[n].line)
        \/ AnnotationStartsOn(input[n].line - 1)

(* The pass has ended on a file where a plain element one line below an    *)
(* annotation comment is gone and a plain element two lines below it, with *)
(* no other annotation comment nearer, is still there.                     *)
C12_Witness ==
  /\ PassEnded
  /\ \E l \in 0..LastLine : \E m, n \in Nodes(input) :
       /\ AnnotationStartsOn(l)
       /\ ~AnnotationStartsOn(l + 1) /\ ~AnnotationStartsOn(l + 2)
       /\ input[m].type = "JSXElement" /\ input[m].line = l + 1
       /\ input[n].type = "JSXElement" /\ input[n].line = l + 2
       /\ input[m].name \notin Tracked /\ input[n].name \notin Tracked
       /\ ~hasDirectComment(input, m) /\ ~hasDirectComment(input, n)
       /\ TakenOut(m)
       /\ Attached(ast, n)

(* The top-level declarations of name x in the parsed file.                *)
DeclarationsOf(x) ==
  {n \in Range(input[Root].kids) :
     /\ input[n].type = "VariableDeclaration"
     /\ x \in Range(declaredNames(input, n))}

(* The logical expressions `IS_EMPLOYEE_MODE && <element/>` of the parsed  *)
(* file that are the expression of a JSX child container.                  *)
GuardedChildren ==
  {n \in Nodes(input) :
     /\ input[n].type = "LogicalExpression"
     /\ input[n].name = "&&"
     /\ input[n].key = "expression"
     /\ input[input[n].parent].type = "JSXExpressionContainer"
     /\ input[input[n].parent].key = "children"
     /\ NameOf(input, Child(input, n, "left")) = "IS_EMPLOYEE_MODE"
     /\ input[Child(input, n, "left")].type = "Identifier"
     /\ input[Child(input, n, "right")].type = "JSXElement"}

ModeFlagScenario ==
  /\ DeclarationsOf("IS_EMPLOYEE_MODE") # {}
  /\ \A n \in DeclarationsOf("IS_EMPLOYEE_MODE") : ~hasDirectComment(input, n)
  /\ DeclarationsOf("SECRET") # {}
  /\ \A n \in DeclarationsOf("SECRET") : hasDirectComment(input, n)
  /\ \E n \in GuardedChildren : hasDirectComment(input, n)

(* C13: when the pass ends on a file with an unannotated declaration of    *)
(* the mode flag, an annotated declaration of SECRET and a guarded child   *)
(* whose logical expression carries the annotation, the logical expression *)
(* has become the literal false in its place, the SECRET declaration is    *)
(* gone, no identifier SECRET is left and the flag declaration is there.   *)
C13_ModeFlagScenario ==
  PassEnded /\ ModeFlagScenario =>
    /\ \A n \in GuardedChildren :
         hasDirectComment(input, n) =>
           /\ Attached(ast, n)
           /\ ast[n].type = "BooleanLiteral" /\ ast[n].name = "false"
    /\ \A n \in DeclarationsOf("SECRET") : ~Attached(ast, n)
    /\ \A n \in Nodes(ast) :
         ~(ast[n].type = "Identifier" /\ ast[n].name = "SECRET")
    /\ \A n \in DeclarationsOf("IS_EMPLOYEE_MODE") : Untouched(n)

(* The declarators `X = Y` of declaration n whose initializer is an        *)
(* identifier that names a member of the set.                              *)
AliasDeclarators(n) ==
  {d \in Range(Children(ast, n, "declarations")) :
     LET init == Child(ast, d, "init")
     IN /\ init # 0
        /\ ast[init].type = "Identifier"
        /\ ast[init].name \in Tracked}

(* A traversal is about to visit declaration n.                            *)
AtDeclaration(n) ==
  /\ phase \in {"Seeding", "Pruning"}
  /\ queue # <<>>
  /\ Head(queue) = n
  /\ ast[n].type = "VariableDeclaration"

OneHop(n) ==
  AtDeclaration(n) =>
    \A d \in AliasDeclarators(n) :
      /\ ~Attached(ast', d)
      /\ NameOf(ast, Child(ast, d, "id")) \in Range(removedImports')

(* C15: when the pass reaches a declarator `X = Y` whose initializer is an *)
(* identifier naming a member of the Removed-Symbol Set, the declarator is *)
(* removed and X is added to the set.                                      *)
C15_OneHopPropagation ==
  [][\A n \in 1..Len(ast) : OneHop(n)]_vars

(* The directly annotated child containers of the parsed file that hold    *)
(* `IS_EMPLOYEE_MODE && <element/>`.                                       *)
AnnotatedGuards ==
  {c \in {input[n].parent : n \in GuardedChildren} : hasDirectComment(input, c)}

(* C16: a directly annotated JSX child container that holds                *)
(* `IS_EMPLOYEE_MODE && <element/>` is never taken out of its parent, and  *)
(* when the pass ends it is a container of the null literal.               *)
C16_AnnotatedContainerEmptied ==
  \A c \in AnnotatedGuards :
    /\ ~TakenOut(c)
    /\ PassEnded /\ Attached(ast, c) =>
         ast[c].type = "JSXExpressionContainer" /\ ast[c].name = "null"

(* The logical expressions of the parsed file that are the expression of a *)
(* JSX child container whose parent element is still in the tree.          *)
HostedLogicals ==
  {n \in Nodes(input) :
     /\ input[n].type = "LogicalExpression"
     /\ input[input[n].parent].type = "JSXExpressionContainer"
     /\ Attached(ast, input[input[n].parent].parent)}

(* The three conditions of the rule, on the node as it was parsed.         *)
FalseRuleApplies(n) ==
  /\ hasDirectComment(input, n)
  /\ input[n].name = "&&"
  /\ Child(input, n, "left") # 0
  /\ input[Child(input, n, "left")].type = "Identifier"
  /\ input[Child(input, n, "left")].name = "IS_EMPLOYEE_MODE"

BecameFalse(n) ==
  /\ Attached(ast, n)
  /\ ast[n].type = "BooleanLiteral"
  /\ ast[n].name = "false"

(* C17: when the pass ends, a logical expression has become the literal    *)
(* false exactly when it carried a direct annotation, its operator was &&  *)
(* and its left operand was the identifier IS_EMPLOYEE_MODE, also when it  *)
(* is the expression of a JSX expression container.                        *)
C17_LogicalBecomesFalse ==
  PassEnded => \A n \in HostedLogicals : BecameFalse(n) <=> FalseRuleApplies(n)

RECURSIVE Ancestors(_, _)
Ancestors(t, n) ==
  IF n = Root \/ t[n].parent = 0 THEN {}
  ELSE {t[n].parent} \cup Ancestors(t, t[n].parent)

(* The comments the parser attached to an ancestor or a descendant of      *)
(* element n.                                                              *)
CarriedAround(n) ==
  UNION {input[a].lead \cup input[a].trail \cup input[a].open :
           a \in (Ancestors(input, n) \cup Below(input, n)) \ {n}}

(* An annotation comment that no ancestor or descendant of element n       *)
(* carries starts on line l.                                               *)
OtherAnnotationStartsOn(n, l) ==
  \E c \in (1..Len(comments)) \ CarriedAround(n) :
    comments[c].line = l /\ isEmployeeCodeComment(comments[c])

(* One of the five conditions holds of element n, the annotations carried  *)
(* by its ancestors and descendants left out.                              *)
ElementCondition(n) ==
  \/ hasDirectComment(input, n)
  \/ hasEmployeeCodeComment(input[n].open)
  \/ ast[n].name \in Tracked
  \/ OtherAnnotationStartsOn(n, ast[n].line)
  \/ OtherAnnotationStartsOn(n, ast[n].line - 1)
  \/ StyleKeyTracked(ast, n)

ElementRule(n) ==
  AtJSXElement(n) => (~Attached(ast', n) <=> ElementCondition(n))

(* C19: the handler of a JSX element removes it exactly when one of its    *)
(* own comments or a comment of its opening tag holds the marker, or its   *)
(* tag name is in the Removed-Symbol Set, or its start line is in the      *)
(* annotation-line set, or its style attribute references an entry whose   *)
(* composite key, table and entry, is in the set; the decision is the one  *)
(* these conditions give without the annotations that the element's        *)
(* ancestors and descendants carry.                                        *)
C19_ElementRemovalRule ==
  [][\A n \in 1..Len(ast) : ElementRule(n)]_vars


(* Entry e of the StyleSheet.create table bound to variable T carries an   *)
(* annotation in the parsed file.                                          *)
EntryAnnotated(T, e) ==
  \E d \in Nodes(input) :
    /\ input[d].type = "VariableDeclarator"
    /\ NameOf(input, Child(input, d, "id")) = T
    /\ Child(input, d, "init") # 0
    /\ input[Child(input, d, "init")].type = "CallExpression"
    /\ e \in Range(annotatedStyleKeys(input, Child(input, d, "init")))

(* The style attribute of element n is U.e, with entry e of table U        *)
(* annotated.                                                              *)
StyleEntryAnnotated(n) ==
  \E a \in Range(ast[n].kids) :
    LET m == StyleMember(ast, a)
    IN /\ m # 0
       /\ EntryAnnotated(NameOf(ast, Child(ast, m, "object")),
                         NameOf(ast, Child(ast, m, "property")))

(* Only the style rule can have element n removed.                         *)
OnlyStyled(n) ==
  /\ ~hasDirectComment(ast, n)
  /\ ~hasEmployeeCodeComment(ast[n].open)
  /\ ast[n].name \notin Tracked
  /\ ~AnnotationStartsOn(ast[n].line)
  /\ ~AnnotationStartsOn(ast[n].line - 1)

StyleRule(n) ==
  AtJSXElement(n) /\ OnlyStyled(n) /\ ~Attached(ast', n)
    => StyleEntryAnnotated(n)

(* C21: the style rule removes a JSX element only when its style attribute *)
(* is T.e for an annotated entry e of the table bound to T; an element     *)
(* styled with U.e, U another identifier, is kept.                         *)
C21_StyleKeyNamesItsTable ==
  [][\A n \in 1..Len(ast) : StyleRule(n)]_vars

(* The main pass is about to run the Identifier handler on node n.         *)
AtIdentifier(n) ==
  /\ phase = "Pruning"
  /\ queue # <<>>
  /\ Head(queue) = n
  /\ ast[n].type = "Identifier"

(* The identifier is the name an import specifier binds or imports.        *)
ImportBinding(n) ==
  ast[ast[n].parent].type \in
    {"ImportSpecifier", "ImportDefaultSpecifier", "ImportNamespaceSpecifier"}

IdentifierRule(n) ==
  AtIdentifier(n) /\ ast[n].name # "undefined" =>
    (ast'[n].name = "undefined" <=>
       /\ ast[n].name \in Tracked
       /\ ast[n].name \notin CRITICAL_IMPORTS
       /\ ~ImportBinding(n))

(* C22: the Identifier handler turns an identifier into `undefined`        *)
(* exactly when its name is in the Removed-Symbol Set, is not a protected  *)
(* name, and the identifier is not in the binding position of a named,     *)
(* default or namespace import specifier.                                  *)
C22_IdentifierRewriteRule ==
  [][\A n \in 1..Len(ast) : IdentifierRule(n)]_vars

(* The name a function declaration or a class member declares.             *)
MemberName(n) ==
  IF input[n].type = "FunctionDeclaration"
  THEN NameOf(input, Child(input, n, "id"))
  ELSE NameOf(input, Child(input, n, "key"))

(* The directly annotated function declarations and class members of the   *)
(* parsed file that the pass has taken out.                                *)
RemovedMembers ==
  {n \in Nodes(input) :
     /\ input[n].type \in {"FunctionDeclaration", "ClassProperty"}
     /\ hasDirectComment(input, n)
     /\ TakenOut(n)}

(* C23: when the pass ends, the name of every directly annotated function  *)
(* declaration or class member that was removed, unless protected, is in   *)
(* the Removed-Symbol Set.                                                 *)
C23_RemovedMembersTracked ==
  PassEnded =>
    \A n \in RemovedMembers :
      MemberName(n) \notin CRITICAL_IMPORTS => MemberName(n) \in Tracked

(* The name of the variable a style entry's table is bound to: the id of   *)
(* the declarator whose initializer is the call the entry is written in.   *)
TableOf(n) ==
  LET obj == input[n].parent
      call == IF obj = 0 THEN 0 ELSE input[obj].parent
      dec == IF call = 0 THEN 0 ELSE input[call].parent
  IN IF dec # 0 /\ input[dec].type = "VariableDeclarator"
     THEN NameOf(input, Child(input, dec, "id")) ELSE ""

(* Node n of the parsed file declares the name, or the style entry whose   *)
(* composite key the name is.                                              *)
Declares(n, name) ==
  \/ /\ input[n].type = "ImportDeclaration"
     /\ name \in Range(importedNames(input, n))
  \/ /\ input[n].type = "VariableDeclaration"
     /\ name \in Range(declaredNames(input, n))
  \/ /\ input[n].type = "ObjectProperty"
     /\ name = TableOf(n) \o "." \o NameOf(input, Child(input, n, "key"))

NoDuplicates(S) == \A i, j \in 1..Len(S) : S[i] = S[j] => i = j

(* A step of a file's pass only adds to the set, each name once.           *)
OnlyGrows ==
  phase \in {"Seeding", "Pruning"} =>
    /\ Tracked \subseteq Range(removedImports')
    /\ NoDuplicates(removedImports')

(* C24: during a file's pass the Removed-Symbol Set only grows and holds   *)
(* no name twice, and when the pass ends every member is declared by an    *)
(* import, a variable declaration or a style entry of the file that is no  *)
(* longer in the tree.                                                     *)
C24_TrackerGrowsFromRemovals ==
  /\ [][OnlyGrows]_vars
  /\ [](PassEnded =>
          \A name \in Tracked :
            \E n \in Nodes(input) : Declares(n, name) /\ ~Attached(ast, n))

(* The main pass is about to run the ImportDeclaration handler on node n.  *)
AtImport(n) ==
  /\ phase = "Pruning"
  /\ queue # <<>>
  /\ Head(queue) = n
  /\ ast[n].type = "ImportDeclaration"

(* The local names the import binds.                                       *)
LocalNames(n) ==
  {ast[l].name : l \in {k \in 1..Len(ast) :
     /\ ast[k].type = "Identifier" /\ ast[k].key = "local"
     /\ ast[k].parent \in Range(ast[n].kids)}}

(* The names a declaration imports, as written in the module it imports    *)
(* from: the `imported` side of each named specifier.                      *)
ImportedSide(n) ==
  LET specs == Children(input, n, "specifiers")
  IN {NameOf(input, Child(input, specs[i], "imported")) : i \in 1..Len(specs)}
       \ {""}

(* The names the import imports: the imported side of a named specifier,   *)
(* the local name of a default or namespace specifier.                     *)
ImportedNamesOf(n) ==
  LET specs == Children(input, n, "specifiers")
  IN ImportedSide(n) \cup
       {NameOf(input, Child(input, specs[i], "local")) :
          i \in {j \in 1..Len(specs) : input[specs[j]].type # "ImportSpecifier"}}

(* The import, or the statement before it, carries an annotation in the    *)
(* parsed file.                                                            *)
ImportAnnotated(n) == AnnotatedOrAfterAnnotated(n)

(* The import is from a protected module (the JSX runtime modules are      *)
(* among them) or imports a name of the protected identifier list.         *)
ImportProtected(n) ==
  \/ input[n].name \in CRITICAL_MODULES
  \/ ImportedNamesOf(n) \cap CRITICAL_IMPORTS # {}

ImportRule(n) ==
  AtImport(n) =>
    /\ ~Attached(ast', n) <=> ImportAnnotated(n) /\ ~ImportProtected(n)
    /\ ~Attached(ast', n) =>
         Range(removedImports') = Tracked \cup (LocalNames(n) \ CRITICAL_IMPORTS)
    /\ ~ImportAnnotated(n) =>
         Attached(ast', n) /\ removedImports' = removedImports

(* C25: the ImportDeclaration handler removes an import exactly when the   *)
(* import or its previous sibling carries an annotation in the parsed file *)
(* and the import is not protected, by its module (a JSX runtime module is *)
(* a protected module) or by a name it imports; it then adds every local   *)
(* name that is not a protected identifier to the Removed-Symbol Set; an   *)
(* import with neither kind of annotation is kept and adds nothing.        *)
C25_ImportRemovalRule ==
  [][\A n \in 1..Len(ast) : ImportRule(n)]_vars

(* The protected imports of the parsed file that carry an annotation.      *)
MisannotatedImports ==
  {m \in Range(input[Root].kids) :
     /\ input[m].type = "ImportDeclaration"
     /\ isCriticalImport(input[m].name, importedNames(input, m))
     /\ hasDirectComment(input, m)}

(* The unannotated imports that directly follow one of them.               *)
FollowingImports ==
  {n \in Range(input[Root].kids) :
     /\ input[n].type = "ImportDeclaration"
     /\ ~hasDirectComment(input, n)
     /\ Sibling(input, n, -1) \in MisannotatedImports}

(* C26: an annotation on a protected import leaves the import in place and *)
(* untracked and has no other effect: when the pass ends, the unannotated  *)
(* import that follows it is in the tree as it was and none of its names   *)
(* is in the Removed-Symbol Set.                                           *)
C26_MisappliedAnnotationIsInert ==
  PassEnded =>
    /\ \A m \in MisannotatedImports :
         Untouched(m) /\ Range(importedNames(input, m)) \cap Tracked = {}
    /\ \A n \in FollowingImports :
         Untouched(n) /\ Range(importedNames(input, n)) \cap Tracked = {}

(* The annotated imports from a non-protected module that import a name of *)
(* the protected identifier list.                                          *)
ProtectedByName ==
  {n \in Range(input[Root].kids) :
     /\ input[n].type = "ImportDeclaration"
     /\ hasDirectComment(input, n)
     /\ input[n].name \notin CRITICAL_MODULES
     /\ ImportedSide(n) \cap CRITICAL_IMPORTS # {}}

(* C27: protection by identifier is decided on the imported names: when    *)
(* the pass ends, an annotated import from a non-protected module one of   *)
(* whose specifiers imports a protected name, under any local alias, is    *)
(* still in the tree as it was and none of its local names is in the       *)
(* Removed-Symbol Set.                                                     *)
C27_ProtectionByImportedName ==
  PassEnded =>
    \A n \in ProtectedByName :
      Untouched(n) /\ Range(importedNames(input, n)) \cap Tracked = {}

(* The step takes node h out of its parent's child sequence and changes    *)
(* nothing else in the tree: the parent keeps its other children in their  *)
(* order, every other node keeps its type, name, parent and children.      *)
DetachesExactly(h) ==
  LET p == ast[h].parent
  IN /\ Len(ast') = Len(ast)
     /\ ast'[p].kids = SelectSeq(ast[p].kids, LAMBDA c : c # h)
     /\ ast'[p].type = ast[p].type
     /\ ast'[p].name = ast[p].name
     /\ ast'[p].parent = ast[p].parent
     /\ \A m \in (1..Len(ast)) \ {p} : SameNode(ast'[m], ast[m])

(* A detached node is left as it is and is not handed to a handler.        *)
DetachedLeftAlone ==
  /\ \A d \in 1..Len(ast) : ~Attached(ast, d) => SameNode(ast'[d], ast[d])
  /\ queue # <<>> => Attached(ast, Head(queue))

(* The steps of one traversal: a handler runs on the tree of the file.      *)
RemovalFrame ==
  (phase \in {"Seeding", "Pruning"} /\ phase' = phase) =>
    /\ DetachedLeftAlone
    /\ (queue # <<>> /\ Attached(ast, Head(queue))
                     /\ ~Attached(ast', Head(queue)))
         => DetachesExactly(Head(queue))

(* C28: a step in which the visited node is removed detaches exactly that  *)
(* node and its subtree from its parent's child sequence, every other      *)
(* child of the parent and every other node staying as it was, and no step *)
(* visits or changes a node that is already detached.                      *)
C28_RemovalDetachesExactlyTheNode == [][RemovalFrame]_vars

(* The steps of the main traversal and Program.exit.                       *)
MainTraversal ==
  \/ VisitImportDeclaration
  \/ VisitLogicalExpression
  \/ VisitFunctionDeclaration
  \/ VisitExpressionStatement
  \/ VisitIdentifier
  \/ ProgramExit

(* Babel's traversal is synchronous: once the main traversal has started   *)
(* it runs on while a handler can change anything.  A handler that         *)
(* replaces a node by an equal node and has it visited again changes       *)
(* nothing: the program runs, the state stays.  Nothing obliges the        *)
(* bundler to hand over a file.                                            *)
SpecModulesLive == Init /\ [][NextModules]_vars /\ WF_vars(MainTraversal)

(* C29: every pass terminates and reaches Reporting, whatever the Removed- *)
(* Symbol Set holds, the name `undefined` included: a main traversal that  *)
(* has started always comes to Program.exit, no placeholder being          *)
(* rewritten again and again.                                              *)
C29_PassTerminates == (phase = "Pruning") ~> (phase = "Reporting")

====
